---- MODULE Spec2Model ----
(***************************************************************************)
(* django_socio_grpc: the proto generator (protobuf/generators.py) and the *)
(* struct-filtered List of UnitTestModelWithStructFilterService.           *)
(*                                                                         *)
(* A line of the generated text is a record [ind, text]: ind is the number *)
(* of four-space indentation units write_line wrote in front of the line,  *)
(* text the line split into its words (a blank line has no words).  The    *)
(* buffer of a writer is the sequence of its lines.                        *)
(***************************************************************************)
EXTENDS Integers, Sequences, FiniteSets, TLC

\* ---------------------------------------------------------------- bounds
\* models registered under the application
MaxModels == 2
\* get_proto calls made in one behaviour, on one generator or on several
MaxCalls == 2
\* records stored by UnitTestModel(...).save()
MaxRecords == 4

\* Python's None for model_name (falsy, like the empty string)
None == ""

\* ------------------------------------------------------------ type mapper
\* ModelProtoGenerator.type_mapping
type_mapping ==
    [AutoField |-> "int32", SmallIntegerField |-> "int32", IntegerField |-> "int32",
     BigIntegerField |-> "int64", PositiveSmallIntegerField |-> "int32",
     PositiveIntegerField |-> "int32", FloatField |-> "float", DecimalField |-> "string",
     BooleanField |-> "bool", NullBooleanField |-> "bool",
     DateField |-> "string", TimeField |-> "string", DateTimeField |-> "string",
     DurationField |-> "string",
     CharField |-> "string", TextField |-> "string", EmailField |-> "string",
     SlugField |-> "string", URLField |-> "string", UUIDField |-> "string",
     GenericIPAddressField |-> "string", FilePathField |-> "string",
     Field |-> "string"]

\* self.type_mapping.get(internal_type, 'string')
MapType(internal_type) ==
    IF internal_type \in DOMAIN type_mapping THEN type_mapping[internal_type] ELSE "string"

\* ------------------------------------------------------------ the registry
\* A model is [name, abstract, fields, pk, has_grpc_methods, grpc_methods,
\* has_grpc_messages, grpc_messages].  grpc_methods is the ordered mapping
\* <<[name, data]>>, grpc_messages the ordered mapping <<[name, fields]>> where
\* fields is [star, names]: star for the "*" sentinel, names a literal list.
FieldInfo(n, t) == [name |-> n, internal_type |-> t]

Star == [star |-> TRUE, names |-> <<>>]

Names(ns) == [star |-> FALSE, names |-> ns]

\* a message_info dict {is_stream, message}; has_message FALSE: key absent
MessageInfo(s, hm, m) == [is_stream |-> s, has_message |-> hm, message |-> m]

EmptyInfo == MessageInfo(FALSE, FALSE, "")

\* a method_data dict {request, response}; is_dict FALSE: the override maps the
\* method name to a value that has no .get (a malformed override)
MethodData(req, resp) == [is_dict |-> TRUE, request |-> req, response |-> resp]

Malformed == [is_dict |-> FALSE, request |-> EmptyInfo, response |-> EmptyInfo]

BaseModels ==
    << [name |-> "Book", pk |-> "id",
        fields |-> << FieldInfo("id", "AutoField"), FieldInfo("title", "CharField"),
                      FieldInfo("price", "DecimalField") >>],
       [name |-> "Author", pk |-> "uid",
        fields |-> << FieldInfo("name", "CharField"), FieldInfo("uid", "BigIntegerField") >>],
       [name |-> "Tag", pk |-> "slug",
        fields |-> << FieldInfo("slug", "SlugField"), FieldInfo("geo", "PointField") >>],
       [name |-> "Shelf", pk |-> "id",
        fields |-> << FieldInfo("id", "AutoField"), FieldInfo("open", "BooleanField") >>] >>

Reverse(s) == [p \in 1..Len(s) |-> s[Len(s) + 1 - p]]

FieldNames(fields) == [p \in 1..Len(fields) |-> fields[p].name]

CustomMethods(b) ==
    << [name |-> "Ping",
        data |-> MethodData(EmptyInfo, MessageInfo(TRUE, TRUE, b.name \o "Pong"))],
       [name |-> "Count",
        data |-> MethodData(MessageInfo(FALSE, TRUE, b.name \o "Brief"), EmptyInfo)] >>

MalformedMethods(b) ==
    << [name |-> "Ping", data |-> MethodData(EmptyInfo, EmptyInfo)],
       [name |-> "Broken", data |-> Malformed] >>

CustomMessages(b) ==
    << [name |-> b.name \o "Full", fields |-> Star],
       [name |-> b.name \o "Brief", fields |-> Names(Reverse(FieldNames(b.fields)))] >>

\* the second message names a field the model does not have
BadMessages(b) ==
    << [name |-> b.name \o "Brief", fields |-> Names(<<b.pk>>)],
       [name |-> b.name \o "Broken",
        fields |-> Names(<<b.fields[1].name, "missing", b.fields[2].name>>)] >>

Model(b, abstract, hm, methods, hg, messages) ==
    [name |-> b.name, pk |-> b.pk, fields |-> b.fields, abstract |-> abstract,
     has_grpc_methods |-> hm, grpc_methods |-> methods,
     has_grpc_messages |-> hg, grpc_messages |-> messages]

\* the shapes a registered model takes: with and without each override map,
\* an empty map, a malformed method, an unknown field, abstract or concrete
Variants(b) ==
    { Model(b, FALSE, FALSE, <<>>, FALSE, <<>>),
      Model(b, FALSE, TRUE, <<>>, TRUE, CustomMessages(b)),
      Model(b, FALSE, TRUE, CustomMethods(b), TRUE, <<>>),
      Model(b, FALSE, TRUE, CustomMethods(b), TRUE, BadMessages(b)),
      Model(b, FALSE, TRUE, MalformedMethods(b), TRUE, CustomMessages(b)),
      Model(b, TRUE, FALSE, <<>>, FALSE, <<>>),
      Model(b, TRUE, TRUE, CustomMethods(b), TRUE, BadMessages(b)) }

\* app.get_models(): the models of the application, in registration order
Registries ==
    UNION { { r \in [1..n -> UNION { Variants(BaseModels[p]) : p \in 1..n }] :
                \A p \in 1..n : r[p] \in Variants(BaseModels[p]) } : n \in 1..MaxModels }

\* ------------------------------------------------------------- _CodeWriter
\* _CodeWriter.__init__: an empty buffer, depth 0
NewWriter == [buffer |-> <<>>, indent |-> 0]

\* _CodeWriter.write_line: one indentation unit per level, then the line
write_line(w, text) ==
    [w EXCEPT !.buffer = Append(@, [ind |-> w.indent, text |-> text])]

\* _CodeWriter.__enter__ (indent() returns the writer itself)
Enter(w) == [w EXCEPT !.indent = @ + 1]

ExitKeepsDepth(w) == w

\* _CodeWriter.__exit__, run by the with statement on every way out of its body
Exit(w) == [w EXCEPT !.indent = @ - 1]

\* _CodeWriter.get_code
get_code(w) == w.buffer

\* ------------------------------------------------- ordered mappings (dict)
\* d[k] = v on an insertion-ordered mapping: an existing key keeps its place
DictSet(d, e) ==
    IF \E p \in 1..Len(d) : d[p].name = e.name
    THEN [p \in 1..Len(d) |-> IF d[p].name = e.name THEN e ELSE d[p]]
    ELSE Append(d, e)

RECURSIVE DictMerge(_, _)
\* {**d1, **d2}
DictMerge(d1, d2) ==
    IF d2 = <<>> THEN d1 ELSE DictMerge(DictSet(d1, Head(d2)), Tail(d2))

\* ------------------------------------------------------------- the mixins
\* <Verb>ModelMixin.get_default_method(model_name)
get_default_method(verb, model_name) ==
    << [name |-> verb \o model_name,
        data |-> MethodData(
            MessageInfo(FALSE, TRUE, model_name \o verb \o "Request"),
            MessageInfo(verb = "List", TRUE, model_name \o verb \o "Response"))] >>

\* <Verb>ModelMixin.get_default_message(model_name, fields)
get_default_message(verb, model_name, fields) ==
    << [name |-> model_name \o verb \o "Request", fields |-> fields] >>

\* ListModelMixin.get_default_message(model_name): all fields
ListDefaultFields == Star

\* ---------------------------------------------------- ModelProtoGenerator
IsAbstractNever(model) == FALSE

\* model_meta.is_abstract_model(model)
is_abstract_model(model) == model.abstract

\* get_model_fields(model): the fields in declared order
get_model_fields(model) == model.fields

\* ModelProtoGenerator.get_default_grpc_methods
get_default_grpc_methods(model) ==
    DictMerge(DictMerge(DictMerge(DictMerge(
        get_default_method("List", model.name),
        get_default_method("Create", model.name)),
        get_default_method("Retrieve", model.name)),
        get_default_method("Update", model.name)),
        get_default_method("Destroy", model.name))

DefaultMessagesWithUpdate(model) ==
    DictMerge(DictMerge(DictMerge(DictMerge(
        get_default_message("Create", model.name, Star),
        get_default_message("List", model.name, ListDefaultFields)),
        get_default_message("Retrieve", model.name, Star)),
        get_default_message("Update", model.name, Star)),
        get_default_message("Destroy", model.name, Names(<<model.pk>>)))

\* ModelProtoGenerator.get_default_grpc_messages
get_default_grpc_messages(model) ==
    DictMerge(DictMerge(DictMerge(
        get_default_message("Create", model.name, Star),
        get_default_message("List", model.name, ListDefaultFields)),
        get_default_message("Retrieve", model.name, Names(<<model.pk>>))),
        get_default_message("Destroy", model.name, Names(<<model.pk>>)))

\* _generate_service: the override if the model has one, else the defaults
GrpcMethods(model) ==
    IF model.has_grpc_methods THEN model.grpc_methods
    ELSE get_default_grpc_methods(model)

\* _generate_message: the override if the model has one, else the defaults
GrpcMessages(model) ==
    IF model.has_grpc_messages THEN model.grpc_messages
    ELSE get_default_grpc_messages(model)

NeverEmpty(mapping) == FALSE

\* `not grpc_methods` / `not grpc_messages`
IsEmpty(mapping) == Len(mapping) = 0

\* construct_method_message: "stream " if is_stream, then the message name,
\* the model's name when the key is absent
construct_method_message(message_info, model) ==
    (IF message_info.is_stream THEN <<"stream">> ELSE <<>>)
    \o << IF message_info.has_message THEN message_info.message ELSE model.name >>

\* the "*" sentinel expands to every field of the model, in declared order
ExpandFields(fields, model) ==
    IF fields.star THEN FieldNames(get_model_fields(model)) ELSE fields.names

GetFieldNeverRaises(model, field_name) ==
    IF \E p \in 1..Len(model.fields) : model.fields[p].name = field_name
    THEN [found |-> TRUE,
          info |-> model.fields[CHOOSE p \in 1..Len(model.fields) :
                                    model.fields[p].name = field_name]]
    ELSE [found |-> TRUE, info |-> FieldInfo(field_name, "Field")]

\* model._meta.get_field(field_name): found FALSE is FieldDoesNotExist raised
get_field(model, field_name) ==
    IF \E p \in 1..Len(model.fields) : model.fields[p].name = field_name
    THEN [found |-> TRUE,
          info |-> model.fields[CHOOSE p \in 1..Len(model.fields) :
                                    model.fields[p].name = field_name]]
    ELSE [found |-> FALSE, info |-> FieldInfo(field_name, "Field")]

NumberSkips(number) == number + 2

\* number += 1
NextNumber(number) == number + 1

\* the lines get_proto and its helpers write
SyntaxLine == <<"syntax", "=", "\"proto3\";">>

PackageLine(app_name, model_name) ==
    <<"package", (IF app_name # None THEN app_name ELSE model_name) \o ";">>

ImportLine == <<"import", "\"google/protobuf/empty.proto\";">>

ServiceLine(model) == <<"service", model.name \o "Controller", "{">>

RpcLine(method_name, request_message, response_message) ==
    <<"rpc", method_name, "(">> \o request_message
    \o <<")", "returns", "(">> \o response_message \o <<")", "{}">>

MessageLine(grpc_message_name) == <<"message", grpc_message_name, "{">>

FieldLine(field_info, number) ==
    <<MapType(field_info.internal_type), field_info.name, "=", ToString(number) \o ";">>

CloseLine == <<"}">>

BlankLine == <<>>

\* ------------------------------------------------------------------ state
VARIABLES
    registry,    \* the models registered under the application (read only)
    target,      \* the model_name argument the caller generates for (read only)
    model_name,  \* self.model_name of the current generator
    models,      \* self.models
    writer,      \* self._writer
    pc,          \* where the current generator is
    i,           \* position of `for model in self.models`
    j,           \* position of `for ... in grpc_methods.items()` / grpc_messages.items()
    k,           \* position of `for field_name in grpc_message_fields_name`
    number,      \* the field number counter of _generate_message
    fields_name, \* grpc_message_fields_name after the "*" expansion
    outcome,     \* how the last get_proto call ended
    result,      \* the text the last get_proto call returned to its caller
    calls,       \* get_proto calls made so far
    returned,    \* every text a get_proto call has returned, with its scope
    db,          \* the stored UnitTestModel records
    response     \* the response of the last List call

genvars == <<registry, target, model_name, models, writer, pc, i, j, k, number, fields_name,
             outcome, result, calls, returned>>

svcvars == <<db, response>>

vars == <<registry, target, model_name, models, writer, pc, i, j, k, number, fields_name,
          outcome, result, calls, returned, db, response>>

\* the application label every generator is constructed with
AppName == "library"

NoDoc == <<>>

NoResponse == [called |-> FALSE, filters |-> <<>>, stored |-> {}, results |-> <<>>]

\* get_model(app_name, model_name)
get_model(reg, name) == reg[CHOOSE p \in 1..Len(reg) : reg[p].name = name]

Init ==
    /\ registry \in Registries
    /\ target \in {None} \cup {registry[p].name : p \in 1..Len(registry)}
    /\ model_name = None
    /\ models = <<>>
    /\ writer = NewWriter
    /\ pc = "unconstructed"
    /\ i = 1 /\ j = 1 /\ k = 1 /\ number = 0
    /\ fields_name = <<>>
    /\ outcome = "none"
    /\ result = NoDoc
    /\ calls = 0
    /\ returned = {}
    /\ db = {}
    /\ response = NoResponse

\* ModelProtoGenerator.__init__(app_name, model_name)
\* A caller constructs its first generator, or a new one once the current one
\* has been used.
Construct(mn) ==
    /\ \/ pc = "unconstructed"
       \/ pc = "idle" /\ outcome # "none"
    /\ calls < MaxCalls
    /\ model_name' = mn
    /\ models' = IF mn # None THEN <<get_model(registry, mn)>> ELSE registry
    /\ writer' = NewWriter
    /\ pc' = "idle"
    /\ outcome' = "none"
    /\ result' = NoDoc
    /\ UNCHANGED <<registry, target, i, j, k, number, fields_name, calls, returned,
                   db, response>>

\* get_proto, lines 68-75: the header
GetProtoBegin ==
    /\ pc = "idle"
    /\ calls < MaxCalls
    /\ writer' = write_line(write_line(write_line(write_line(write_line(write_line(
                    writer, SyntaxLine), BlankLine),
                    PackageLine(AppName, model_name)), BlankLine),
                    ImportLine), BlankLine)
    /\ pc' = "services"
    /\ i' = 1
    /\ calls' = calls + 1
    /\ outcome' = "running"
    /\ result' = NoDoc
    /\ UNCHANGED <<registry, target, model_name, models, j, k, number, fields_name, returned, db, response>>

\* get_proto, lines 78-79: an abstract model is skipped in the first loop
ServiceSkipAbstract ==
    /\ pc = "services"
    /\ i <= Len(models)
    /\ is_abstract_model(models[i])
    /\ i' = i + 1
    /\ UNCHANGED <<registry, target, model_name, models, writer, pc, j, k, number, fields_name,
                   outcome, result, calls, returned, db, response>>

\* _generate_service, lines 96-97: no methods, nothing written
ServiceEmptyReturn ==
    /\ pc = "services"
    /\ i <= Len(models)
    /\ ~is_abstract_model(models[i])
    /\ IsEmpty(GrpcMethods(models[i]))
    /\ i' = i + 1
    /\ UNCHANGED <<registry, target, model_name, models, writer, pc, j, k, number, fields_name,
                   outcome, result, calls, returned, db, response>>

\* _generate_service, lines 99-100: the header line, then the with block is entered
ServiceOpen ==
    /\ pc = "services"
    /\ i <= Len(models)
    /\ ~is_abstract_model(models[i])
    /\ ~IsEmpty(GrpcMethods(models[i]))
    /\ writer' = Enter(write_line(writer, ServiceLine(models[i])))
    /\ pc' = "service_body"
    /\ j' = 1
    /\ UNCHANGED <<registry, target, model_name, models, i, k, number, fields_name,
                   outcome, result, calls, returned, db, response>>

\* _generate_service, lines 101-110: one rpc line
ServiceRpc ==
    /\ pc = "service_body"
    /\ j <= Len(GrpcMethods(models[i]))
    /\ LET method == GrpcMethods(models[i])[j] IN
        /\ method.data.is_dict
        /\ writer' = write_line(writer,
                RpcLine(method.name,
                        construct_method_message(method.data.request, models[i]),
                        construct_method_message(method.data.response, models[i])))
    /\ j' = j + 1
    /\ UNCHANGED <<registry, target, model_name, models, pc, i, k, number, fields_name,
                   outcome, result, calls, returned, db, response>>

\* _generate_service, line 103: method_data.get raises on a value that is no dict;
\* the with block is left through __exit__ and get_proto fails
ServiceRpcRaise ==
    /\ pc = "service_body"
    /\ j <= Len(GrpcMethods(models[i]))
    /\ ~GrpcMethods(models[i])[j].data.is_dict
    /\ writer' = Exit(writer)
    /\ pc' = "idle"
    /\ outcome' = "failed"
    /\ i' = 1 /\ j' = 1
    /\ UNCHANGED <<registry, target, model_name, models, k, number, fields_name,
                   result, calls, returned, db, response>>

\* _generate_service, lines 100, 111-112: the with block ends, the block is closed
ServiceClose ==
    /\ pc = "service_body"
    /\ j > Len(GrpcMethods(models[i]))
    /\ writer' = write_line(write_line(Exit(writer), CloseLine), BlankLine)
    /\ pc' = "services"
    /\ i' = i + 1
    /\ j' = 1
    /\ UNCHANGED <<registry, target, model_name, models, k, number, fields_name,
                   outcome, result, calls, returned, db, response>>

\* get_proto, line 82: the first loop is over, the second begins
ServiceLoopEnd ==
    /\ pc = "services"
    /\ i > Len(models)
    /\ pc' = "messages"
    /\ i' = 1
    /\ j' = 1
    /\ UNCHANGED <<registry, target, model_name, models, writer, k, number, fields_name,
                   outcome, result, calls, returned, db, response>>

\* get_proto, lines 84-85: an abstract model is skipped in the second loop
MessageSkipAbstract ==
    /\ pc = "messages"
    /\ i <= Len(models)
    /\ is_abstract_model(models[i])
    /\ i' = i + 1
    /\ UNCHANGED <<registry, target, model_name, models, writer, pc, j, k, number, fields_name,
                   outcome, result, calls, returned, db, response>>

\* _generate_message, lines 152-153: no messages, nothing written
MessageEmptyReturn ==
    /\ pc = "messages"
    /\ i <= Len(models)
    /\ ~is_abstract_model(models[i])
    /\ IsEmpty(GrpcMessages(models[i]))
    /\ i' = i + 1
    /\ UNCHANGED <<registry, target, model_name, models, writer, pc, j, k, number, fields_name,
                   outcome, result, calls, returned, db, response>>

\* _generate_message, lines 155-165: "*" expanded, the header line, the with
\* block entered, number = 0
MessageOpen ==
    /\ pc = "messages"
    /\ i <= Len(models)
    /\ ~is_abstract_model(models[i])
    /\ ~IsEmpty(GrpcMessages(models[i]))
    /\ j <= Len(GrpcMessages(models[i]))
    /\ LET message == GrpcMessages(models[i])[j] IN
        /\ fields_name' = ExpandFields(message.fields, models[i])
        /\ writer' = Enter(write_line(writer, MessageLine(message.name)))
    /\ number' = 0
    /\ k' = 1
    /\ pc' = "message_body"
    /\ UNCHANGED <<registry, target, model_name, models, i, j,
                   outcome, result, calls, returned, db, response>>

\* _generate_message, lines 167-172: one field line
MessageField ==
    /\ pc = "message_body"
    /\ k <= Len(fields_name)
    /\ LET field == get_field(models[i], fields_name[k]) IN
        /\ field.found
        /\ writer' = write_line(writer, FieldLine(field.info, NextNumber(number)))
    /\ number' = NextNumber(number)
    /\ k' = k + 1
    /\ UNCHANGED <<registry, target, model_name, models, pc, i, j, fields_name,
                   outcome, result, calls, returned, db, response>>

\* _generate_message, line 169: get_field raises FieldDoesNotExist; the with
\* block is left through __exit__ and get_proto fails without returning
MessageFieldRaise ==
    /\ pc = "message_body"
    /\ k <= Len(fields_name)
    /\ ~get_field(models[i], fields_name[k]).found
    /\ writer' = Exit(writer)
    /\ pc' = "idle"
    /\ outcome' = "failed"
    /\ i' = 1 /\ j' = 1 /\ k' = 1
    /\ number' = 0
    /\ fields_name' = <<>>
    /\ UNCHANGED <<registry, target, model_name, models, result, calls, returned,
                   db, response>>

\* _generate_message, lines 164, 173-174: the with block ends, the block is closed
MessageClose ==
    /\ pc = "message_body"
    /\ k > Len(fields_name)
    /\ writer' = write_line(write_line(Exit(writer), CloseLine), BlankLine)
    /\ pc' = "messages"
    /\ j' = j + 1
    /\ k' = 1
    /\ number' = 0
    /\ fields_name' = <<>>
    /\ UNCHANGED <<registry, target, model_name, models, i,
                   outcome, result, calls, returned, db, response>>

\* _generate_message, line 155: the messages of this model are all written
MessageItemsEnd ==
    /\ pc = "messages"
    /\ i <= Len(models)
    /\ ~is_abstract_model(models[i])
    /\ ~IsEmpty(GrpcMessages(models[i]))
    /\ j > Len(GrpcMessages(models[i]))
    /\ i' = i + 1
    /\ j' = 1
    /\ UNCHANGED <<registry, target, model_name, models, writer, pc, k, number, fields_name,
                   outcome, result, calls, returned, db, response>>

\* get_proto, line 87: return self._writer.get_code()
GetProtoReturn ==
    /\ pc = "messages"
    /\ i > Len(models)
    /\ result' = get_code(writer)
    /\ returned' = returned \cup {[scope |-> model_name, text |-> get_code(writer)]}
    /\ outcome' = "returned"
    /\ pc' = "idle"
    /\ i' = 1
    /\ UNCHANGED <<registry, target, model_name, models, writer, j, k, number, fields_name,
                   calls, db, response>>

GenNext ==
    \/ Construct(target)
    \/ GetProtoBegin
    \/ ServiceSkipAbstract
    \/ ServiceEmptyReturn
    \/ ServiceOpen
    \/ ServiceRpc
    \/ ServiceRpcRaise
    \/ ServiceClose
    \/ ServiceLoopEnd
    \/ MessageSkipAbstract
    \/ MessageEmptyReturn
    \/ MessageOpen
    \/ MessageField
    \/ MessageFieldRaise
    \/ MessageClose
    \/ MessageItemsEnd
    \/ GetProtoReturn

\* ------------------------------ UnitTestModelWithStructFilterService.List
\* StandardResultsSetPagination.page_size
page_size == 3

FiltersetTextOnly == <<"text">>

\* UnitTestModelWithStructFilterService.filterset_fields
filterset_fields == <<"title", "text">>

\* the titles and texts the stored records are drawn from
Titles == {"zzzz", "zzzzzzz"}

Texts == {"abc", "jkl"}

\* the _filters structs of a List request
FilterStructs ==
    {<<>>} \cup {<<[name |-> "title", value |-> v]>> : v \in Titles}
           \cup {<<[name |-> "text", value |-> x]>> : x \in Texts}
           \cup {<<[name |-> "title", value |-> "zzzz"], [name |-> "text", value |-> "jkl"]>>,
                 <<[name |-> "id", value |-> "zzzz"]>>}

RECURSIVE OrderById(_)
\* UnitTestModel.objects.all().order_by("id")
OrderById(records) ==
    IF records = {} THEN <<>>
    ELSE LET first == CHOOSE r \in records : \A o \in records : r.id <= o.id
         IN <<first>> \o OrderById(records \ {first})

queryset(stored) == OrderById(stored)

\* one record against the struct: every key that is a filterset field must
\* match exactly, any other key is ignored
Matches(rec, filters) ==
    \A p \in 1..Len(filters) :
        (\E f \in 1..Len(filterset_fields) : filterset_fields[f] = filters[p].name)
            => rec[filters[p].name] = filters[p].value

\* DjangoFilterBackend.filter_queryset on the struct of the request
filter_queryset(qs, filters) == SelectSeq(qs, LAMBDA rec : Matches(rec, filters))

\* PageNumberPagination: the first page, the request names no other
paginate_queryset(qs) ==
    SubSeq(qs, 1, IF Len(qs) < page_size THEN Len(qs) ELSE page_size)

\* UnitTestModel(title=..., text=...).save()
Save(title, text) ==
    /\ Cardinality(db) < MaxRecords
    /\ db' = db \cup {[id |-> Cardinality(db) + 1, title |-> title, text |-> text]}
    /\ UNCHANGED <<response, genvars>>

\* grpc_stub.List(request) with _filters = filters
List(filters) ==
    /\ response' = [called |-> TRUE, filters |-> filters, stored |-> db,
                    results |-> paginate_queryset(filter_queryset(queryset(db), filters))]
    /\ UNCHANGED <<db, genvars>>

InitService ==
    /\ registry = <<>>
    /\ target = None
    /\ model_name = None
    /\ models = <<>>
    /\ writer = NewWriter
    /\ pc = "unconstructed"
    /\ i = 1 /\ j = 1 /\ k = 1 /\ number = 0
    /\ fields_name = <<>>
    /\ outcome = "none"
    /\ result = NoDoc
    /\ calls = 0
    /\ returned = {}
    /\ db = {}
    /\ response = NoResponse

ServiceNext ==
    \/ \E title \in Titles, text \in Texts : Save(title, text)
    \/ \E filters \in FilterStructs : List(filters)

SpecService == InitService /\ [][ServiceNext]_vars

Next == GenNext

Spec == Init /\ [][Next]_vars

\* ------------------------------------------------------- reading a text
IsServiceLine(l) == Len(l.text) = 3 /\ l.text[1] = "service"

IsMessageLine(l) == Len(l.text) = 3 /\ l.text[1] = "message"

IsRpcLine(l) == Len(l.text) > 3 /\ l.text[1] = "rpc"

IsFieldLine(l) == Len(l.text) = 4 /\ l.text[3] = "="

Count(doc, text) == Cardinality({p \in 1..Len(doc) : doc[p].text = text})

CountLines(doc, Is(_)) == Cardinality({p \in 1..Len(doc) : Is(doc[p])})

Has(doc, text) == \E p \in 1..Len(doc) : doc[p].text = text

\* doc holds the block `message name { lines }`, every line one level deep
HasBlock(doc, name, lines) ==
    \E p \in 1..Len(doc) :
        /\ doc[p] = [ind |-> 0, text |-> MessageLine(name)]
        /\ p + Len(lines) + 1 <= Len(doc)
        /\ \A q \in 1..Len(lines) : doc[p + q] = [ind |-> 1, text |-> lines[q]]
        /\ doc[p + Len(lines) + 1] = [ind |-> 0, text |-> CloseLine]

Concrete(ms) == {p \in 1..Len(ms) : ~ms[p].abstract}

Abstract(ms) == {p \in 1..Len(ms) : ms[p].abstract}

\* the field of model m named n, and whether it has one
HasField(m, n) == \E p \in 1..Len(m.fields) : m.fields[p].name = n

FieldOf(m, n) == m.fields[CHOOSE p \in 1..Len(m.fields) : m.fields[p].name = n]

\* the field names a message spec lists, "*" being the declared fields
Listed(m, e) == IF e.fields.star THEN FieldNames(m.fields) ELSE e.fields.names

\* a message spec of m names a field m does not have
HasUnknownField(m) ==
    \E p \in 1..Len(GrpcMessages(m)) :
        \E q \in 1..Len(Listed(m, GrpcMessages(m)[p])) :
            ~HasField(m, Listed(m, GrpcMessages(m)[p])[q])

\* ------------------------------------------------------------------ claims

\* C1: for a fixed registry and scope, any two get_proto calls return the
\* same text.
C1_Determinism ==
    \A a \in returned, b \in returned : a.scope = b.scope => a.text = b.text

\* C2: every text get_proto returns starts with the syntax declaration, then
\* the package statement, then the import; every service block comes after the
\* import and no message block comes before a service block.
C2_EmissionOrder ==
    outcome = "returned" =>
        /\ result[1].text = SyntaxLine
        /\ result[3].text = PackageLine(AppName, model_name)
        /\ result[5].text = ImportLine
        /\ \A q \in 1..Len(result) : IsServiceLine(result[q]) => q > 5
        /\ \A p \in 1..Len(result), q \in 1..Len(result) :
               IsMessageLine(result[p]) /\ IsServiceLine(result[q]) => q < p

\* C3: nothing is written for an abstract model of self.models: no service
\* header, no rpc line, no message header of its message map, with or without
\* overrides; a returned text still holds the blocks of every concrete model.
C3_AbstractExclusion ==
    /\ \A p \in Abstract(models) :
        /\ ~Has(writer.buffer, ServiceLine(models[p]))
        /\ \A q \in 1..Len(GrpcMessages(models[p])) :
               ~Has(writer.buffer, MessageLine(GrpcMessages(models[p])[q].name))
    /\ outcome = "returned" =>
        \A p \in Concrete(models) :
            /\ GrpcMethods(models[p]) # <<>> => Has(result, ServiceLine(models[p]))
            /\ \A q \in 1..Len(GrpcMessages(models[p])) :
                   Has(result, MessageLine(GrpcMessages(models[p])[q].name))

C3_Witness ==
    /\ outcome = "returned"
    /\ \E p \in Abstract(models) : models[p].has_grpc_methods /\ models[p].has_grpc_messages
    /\ \E p \in Concrete(models) :
        /\ Has(result, ServiceLine(models[p]))
        /\ \E q \in 1..Len(GrpcMessages(models[p])) :
               Has(result, MessageLine(GrpcMessages(models[p])[q].name))

\* C4: in a returned text, the block of a message whose spec lists N field
\* names ("*" being the model's fields in declared order) is its header, then
\* exactly N field lines numbered 1..N in listed order, then the closing brace;
\* the numbering starts at 1 in every block.
C4_FieldNumbering ==
    outcome = "returned" =>
        \A p \in Concrete(models) :
            \A q \in 1..Len(GrpcMessages(models[p])) :
                LET e == GrpcMessages(models[p])[q]
                    listed == Listed(models[p], e)
                IN  /\ Count(result, MessageLine(e.name)) >= 1
                    /\ \A s \in 1..Len(result) :
                        result[s].text = MessageLine(e.name) =>
                            /\ s + Len(listed) + 1 <= Len(result)
                            /\ \A n \in 1..Len(listed) :
                                   result[s + n] =
                                       [ind |-> 1,
                                        text |-> << MapType(FieldOf(models[p], listed[n]).internal_type),
                                                    listed[n], "=", ToString(n) \o ";" >>]
                            /\ result[s + Len(listed) + 1].text = CloseLine

C4_Witness ==
    /\ outcome = "returned"
    /\ HasBlock(result, "BookFull",
                << <<"int32", "id", "=", "1;">>, <<"string", "title", "=", "2;">>,
                   <<"string", "price", "=", "3;">> >>)
    /\ HasBlock(result, "BookBrief",
                << <<"string", "price", "=", "1;">>, <<"string", "title", "=", "2;">>,
                   <<"int32", "id", "=", "3;">> >>)

\* C5 as stated: a message spec of any model of self.models, abstract ones
\* included, names an unknown field => the call does not return a text.
C5_AnyModelFailFast ==
    (\E p \in 1..Len(models) : HasUnknownField(models[p])) => outcome # "returned"

\* C5: if a message spec of a concrete model of self.models names a field the
\* model does not have, no get_proto call returns a text: a call that has ended
\* has failed, the caller holds no text, and a running call can always go on.
C5_UnknownFieldFailFast ==
    (\E p \in Concrete(models) : HasUnknownField(models[p])) =>
        /\ outcome \in {"none", "running", "failed"}
        /\ result = NoDoc
        /\ returned = {}
        /\ outcome = "running" => ENABLED GenNext

C5_Witness ==
    /\ outcome = "failed"
    /\ pc = "idle"
    /\ result = NoDoc
    /\ \E p \in Concrete(models) :
        /\ HasUnknownField(models[p])
        /\ Has(writer.buffer, MessageLine(models[p].name \o "Broken"))

\* C6: for a concrete model without a grpc_messages override a returned text
\* holds the Create and List blocks over all fields in declared order and the
\* Retrieve and Destroy blocks over the primary key alone, and no Update block.
C6_DefaultMessages ==
    outcome = "returned" =>
        \A p \in Concrete(models) :
            ~models[p].has_grpc_messages =>
                LET m == models[p]
                    all == [n \in 1..Len(m.fields) |->
                                << MapType(m.fields[n].internal_type), m.fields[n].name,
                                   "=", ToString(n) \o ";" >>]
                    key == << << MapType(FieldOf(m, m.pk).internal_type), m.pk, "=", "1;" >> >>
                IN  /\ HasBlock(result, m.name \o "CreateRequest", all)
                    /\ HasBlock(result, m.name \o "ListRequest", all)
                    /\ HasBlock(result, m.name \o "RetrieveRequest", key)
                    /\ HasBlock(result, m.name \o "DestroyRequest", key)
                    /\ ~Has(result, MessageLine(m.name \o "UpdateRequest"))
                    /\ \A s \in 1..Len(result) :
                        IsMessageLine(result[s]) =>
                            \/ result[s].text[2] \in
                                   {m.name \o v \o "Request" :
                                        v \in {"Create", "List", "Retrieve", "Destroy"}}
                            \/ \E o \in Concrete(models) :
                                   o # p /\ \E q \in 1..Len(GrpcMessages(models[o])) :
                                       GrpcMessages(models[o])[q].name = result[s].text[2]

C6_Witness ==
    /\ outcome = "returned"
    /\ \E p \in Concrete(models) : models[p].name = "Book" /\ ~models[p].has_grpc_messages
    /\ HasBlock(result, "BookCreateRequest",
                << <<"int32", "id", "=", "1;">>, <<"string", "title", "=", "2;">>,
                   <<"string", "price", "=", "3;">> >>)
    /\ HasBlock(result, "BookRetrieveRequest", << <<"int32", "id", "=", "1;">> >>)
    /\ HasBlock(result, "BookDestroyRequest", << <<"int32", "id", "=", "1;">> >>)

\* C7: nothing is ever written for the service of a concrete model whose
\* method set is empty; a returned text holds the service header of a concrete
\* model exactly when its method set is not empty, and holds no brace and no
\* blank line beyond those of its headers and blocks.
C7_EmptyMethodSuppression ==
    /\ \A p \in Concrete(models) :
           Len(GrpcMethods(models[p])) = 0 => ~Has(writer.buffer, ServiceLine(models[p]))
    /\ outcome = "returned" =>
        /\ \A p \in Concrete(models) :
               Has(result, ServiceLine(models[p])) <=> Len(GrpcMethods(models[p])) > 0
        /\ Count(result, CloseLine) =
               CountLines(result, IsServiceLine) + CountLines(result, IsMessageLine)
        /\ Count(result, BlankLine) = 3 * Count(result, SyntaxLine) + Count(result, CloseLine)

C7_Witness ==
    /\ outcome = "returned"
    /\ \E p \in Concrete(models) :
           models[p].has_grpc_methods /\ models[p].grpc_methods = <<>>
    /\ \E p \in Concrete(models) : Has(result, ServiceLine(models[p]))

\* C9: every text get_proto returns holds exactly one syntax declaration.
C9_FreshWriterPerCall ==
    outcome = "returned" => Count(result, SyntaxLine) = 1

\* C10: the depth of the writer is 1 while the body of a service or message
\* block is written and 0 everywhere else, so never negative and 0 whenever
\* get_proto has returned or failed; every line was written at the depth of
\* its place: rpc and field lines at 1, every other line at 0.
C10_IndentBalanced ==
    /\ writer.indent = IF pc \in {"service_body", "message_body"} THEN 1 ELSE 0
    /\ \A p \in 1..Len(writer.buffer) :
           writer.buffer[p].ind =
               IF IsRpcLine(writer.buffer[p]) \/ IsFieldLine(writer.buffer[p]) THEN 1 ELSE 0

C10_Witness ==
    /\ outcome = "failed"
    /\ pc = "idle"
    /\ writer.indent = 0
    /\ writer.buffer[Len(writer.buffer)].ind = 1
    /\ IsFieldLine(writer.buffer[Len(writer.buffer)])

====
